---- MODULE Spec2Model ----
(***************************************************************************)
(* Grid overlay: GridConfiguration (clamped observable state), Gestures    *)
(* (pointer drag, touch pinch/rotate, ctrl+wheel) and GridRenderer (frame  *)
(* loop, #draw, drawTo), modelled as one state machine.  Every handler of  *)
(* the program is one action; its body is an operator over the record of   *)
(* program state (the "world") that returns the world after the handler.   *)
(***************************************************************************)
EXTENDS Integers, Sequences, FiniteSets, TLC

VARIABLES
    config,     \* GridConfiguration's backing fields
    listeners,  \* GridConfiguration.#listeners, in insertion order
    gestures,   \* Gestures' private fields
    renderer,   \* GridRenderer's private fields and its live canvas
    snapshot,   \* the offscreen target of the last drawTo call
    calls,      \* listener invocations and #draw calls of the last handler, in order
    last,       \* the name of the last handler run
    hist,       \* history of the gesture anchors, recorded from the events
    steps,      \* number of handlers run so far
    own,        \* own properties assigned on the configuration object: <<key, value>>
    thrown,     \* the exception the last handler ended with, or "none"
    formationRows,    \* the formation editor's list of row counts
    formationRowsEl   \* the rows of #formationRows: the index each row's handlers captured

vars == <<config, listeners, gestures, renderer, snapshot, calls, last, hist, steps,
          own, thrown, formationRows, formationRowsEl>>

(***************************************************************************)
(* Bounds of the model.                                                    *)
(***************************************************************************)
MaxSteps == 3
MaxConfigSteps == 4
MaxPointerSteps == 5
MaxTouchSteps == 4
MaxRenderSteps == 5
MaxDrawSteps == 4
MaxParseSteps == 3
MaxLiveSteps == 3
MaxListenerSteps == 4
MaxTargetSteps == 3
MaxDestroySteps == 5
MaxUpdateSteps == 3
MaxFormationSteps == 5
MaxRows == 3

(***************************************************************************)
(* JS numbers: exact rationals <<n, d>> in lowest terms with d > 0, and NaN *)
(* as <<0, 0>>: arithmetic with NaN gives NaN, comparisons with it are     *)
(* false.                                                                  *)
(***************************************************************************)
Abs(i) == IF i < 0 THEN -i ELSE i

NaN == <<0, 0>>

IsNaN(a) == a = NaN

RECURSIVE Gcd(_, _)
Gcd(a, b) == IF b = 0 THEN a ELSE Gcd(b, a % b)

Num(n, d) ==
    IF n = 0 /\ d = 0 THEN NaN
    ELSE LET s == IF d < 0 THEN -1 ELSE 1
             g == Gcd(Abs(n), Abs(d))
         IN  <<(s * n) \div g, (s * d) \div g>>

Z(i) == <<i, 1>>

Add(a, b) == Num(a[1] * b[2] + b[1] * a[2], a[2] * b[2])
Sub(a, b) == Num(a[1] * b[2] - b[1] * a[2], a[2] * b[2])
Mul(a, b) == Num(a[1] * b[1], a[2] * b[2])
Div(a, b) == Num(a[1] * b[2], a[2] * b[1])
Neg(a) == <<-a[1], a[2]>>
Lt(a, b) == ~IsNaN(a) /\ ~IsNaN(b) /\ a[1] * b[2] < b[1] * a[2]
Le(a, b) == ~IsNaN(a) /\ ~IsNaN(b) /\ a[1] * b[2] <= b[1] * a[2]

\* Math.max and Math.min return NaN when an argument is NaN
MathMax(a, b) == IF IsNaN(a) \/ IsNaN(b) THEN NaN ELSE IF Lt(a, b) THEN b ELSE a
MathMin(a, b) == IF IsNaN(a) \/ IsNaN(b) THEN NaN ELSE IF Lt(b, a) THEN b ELSE a
\* Math.round: the nearest integer, a tie going to the larger one
MathRound(a) == IF IsNaN(a) THEN NaN ELSE Z((2 * a[1] + a[2]) \div (2 * a[2]))
\* Math.sqrt, on the perfect squares the model's inputs produce
MathSqrt(a) == IF IsNaN(a) THEN NaN ELSE Z(CHOOSE r \in 0..a[1] : r * r = a[1])

(***************************************************************************)
(* GridConfiguration                                                        *)
(***************************************************************************)
InitConfig ==
    [gridN |-> Z(4), cellSize |-> Z(60), rotation |-> Z(0),
     positionX |-> Z(0), positionY |-> Z(0), lineColor |-> "#00ff00",
     lineWidth |-> Num(3, 2), lineOpacity |-> Num(4, 5)]

\* One listener call fn(this): the renderer's listener sets the dirty flag; the
\* listener "once" calls its own unsubscribe function (#listeners.delete);
\* every listener is logged with the configuration it reads.
invoke(w, fn) ==
    LET logged == [w EXCEPT !.calls = Append(@, [fn |-> fn, seen |-> w.config])]
    IN  CASE fn = "render" -> [logged EXCEPT !.renderer.needsDraw = TRUE]
          [] fn = "once" -> [logged EXCEPT !.listeners = SelectSeq(@, LAMBDA x : x # "once")]
          [] OTHER -> logged

\* iteration that steps to the next index of the listeners, whatever a listener
\* removed
RECURSIVE notifyFrom_byIndex(_, _)
notifyFrom_byIndex(w, i) ==
    IF i > Len(w.listeners) THEN w
    ELSE notifyFrom_byIndex(invoke(w, w.listeners[i]), i + 1)

\* for (const fn of this.#listeners) fn(this), from the i-th entry on: a Set is
\* iterated in insertion order, and the entries after the current one are
\* visited whether or not the current one was deleted meanwhile
RECURSIVE notifyFrom(_, _)
notifyFrom(w, i) ==
    IF i > Len(w.listeners) THEN w
    ELSE LET after == invoke(w, w.listeners[i])
             visited == {w.listeners[k] : k \in 1..i}
             kept == SelectSeq(after.listeners, LAMBDA x : x \in visited)
         IN  notifyFrom(after, Len(kept) + 1)

notify(w) == notifyFrom(w, 1)

\* set gridN without the lower clamp
set_gridN_noFloor(w, v) ==
    notify([w EXCEPT !.config.gridN = MathMin(Z(128), MathRound(v))])

set_gridN(w, v) ==
    notify([w EXCEPT !.config.gridN = MathMax(Z(1), MathMin(Z(128), MathRound(v)))])

effectiveN(w) == MathMax(Z(1), w.config.gridN)

\* set cellSize without the lower clamp
set_cellSize_noFloor(w, v) ==
    notify([w EXCEPT !.config.cellSize = MathMin(Z(400), v)])

\* set cellSize notifying before it stores
set_cellSize_notifyFirst(w, v) ==
    [notify(w) EXCEPT !.config.cellSize = MathMax(Z(10), MathMin(Z(400), v))]

set_cellSize(w, v) ==
    notify([w EXCEPT !.config.cellSize = MathMax(Z(10), MathMin(Z(400), v))])

totalGridSize(w) == Mul(effectiveN(w), w.config.cellSize)

set_rotation(w, v) ==
    notify([w EXCEPT !.config.rotation = MathMax(Z(-180), MathMin(Z(180), v))])

set_positionX(w, v) == notify([w EXCEPT !.config.positionX = v])

set_positionY(w, v) == notify([w EXCEPT !.config.positionY = v])

set_lineColor(w, v) == notify([w EXCEPT !.config.lineColor = v])

set_lineWidth(w, v) ==
    notify([w EXCEPT !.config.lineWidth = MathMax(Num(1, 2), MathMin(Z(5), v))])

\* set lineOpacity clamping to [0, 1]
set_lineOpacity_zero(w, v) ==
    notify([w EXCEPT !.config.lineOpacity = MathMax(Z(0), MathMin(Z(1), v))])

set_lineOpacity(w, v) ==
    notify([w EXCEPT !.config.lineOpacity = MathMax(Num(1, 10), MathMin(Z(1), v))])

\* centerGrid going through the two position setters
centerGrid_perAxis(w) == set_positionY(set_positionX(w, Z(0)), Z(0))

\* centerGrid that also moves the anchor of a drag to the centre
centerGrid_reanchors(w) ==
    [notify([w EXCEPT !.config.positionX = Z(0), !.config.positionY = Z(0)])
        EXCEPT !.gestures.configStartX = Z(0), !.gestures.configStartY = Z(0)]

centerGrid(w) ==
    notify([w EXCEPT !.config.positionX = Z(0), !.config.positionY = Z(0)])

\* this[key] = value for a key that names a field
assign(w, key, v) ==
    CASE key = "gridN" -> set_gridN(w, v)
      [] key = "cellSize" -> set_cellSize(w, v)
      [] key = "rotation" -> set_rotation(w, v)
      [] key = "positionX" -> set_positionX(w, v)
      [] key = "positionY" -> set_positionY(w, v)
      [] key = "lineColor" -> set_lineColor(w, v)
      [] key = "lineWidth" -> set_lineWidth(w, v)
      [] key = "lineOpacity" -> set_lineOpacity(w, v)

Fields ==
    {"gridN", "cellSize", "rotation", "positionX", "positionY",
     "lineColor", "lineWidth", "lineOpacity"}

\* update storing every value and notifying once at the end
RECURSIVE storeFrom(_, _, _)
storeFrom(w, props, i) ==
    IF i > Len(props) THEN w
    ELSE storeFrom([assign(w, props[i][1], props[i][2]) EXCEPT
                       !.calls = w.calls, !.renderer = w.renderer],
                   props, i + 1)

update_batched(w, props) ==
    IF props = <<>> THEN w ELSE notify(storeFrom(w, props, 1))

\* The names for which (key in this) holds besides the fields: the accessors
\* that have a getter only, and the methods
Getters == {"effectiveN", "totalGridSize"}

Methods == {"centerGrid", "update", "onChange"}

\* update(props): props is the sequence Object.entries(props) of <<key, value>>.
\* this[key] = value runs the setter of a field; it throws a TypeError for an
\* accessor without a setter (class code is strict), which ends the loop; and
\* for a method it creates an own property that shadows the method.
RECURSIVE updateFrom(_, _, _)
updateFrom(w, props, i) ==
    IF i > Len(props) THEN w
    ELSE LET key == props[i][1]
             value == props[i][2]
         IN  CASE key \in Fields -> updateFrom(assign(w, key, value), props, i + 1)
               [] key \in Getters -> [w EXCEPT !.thrown = "TypeError"]
               [] key \in Methods ->
                    updateFrom([w EXCEPT !.own = {p \in @ : p[1] # key} \cup {<<key, value>>}],
                               props, i + 1)
               [] OTHER -> updateFrom(w, props, i + 1)

update(w, props) == updateFrom(w, props, 1)

\* config.method(...): the call throws a TypeError when an own property that is
\* not a function shadows the method, and leaves the state `called` otherwise
call(w, method, called) ==
    IF \E p \in w.own : p[1] = method
    THEN [w EXCEPT !.thrown = "TypeError"]
    ELSE called

onChange(w, fn) ==
    IF \E i \in 1..Len(w.listeners) : w.listeners[i] = fn
    THEN w
    ELSE [w EXCEPT !.listeners = Append(@, fn)]

\* an unsubscribe function that removes nothing
unsubscribe_keeps(w, fn) == w

\* the function onChange returned: this.#listeners.delete(fn)
unsubscribe(w, fn) ==
    [w EXCEPT !.listeners = SelectSeq(@, LAMBDA x : x # fn)]

(***************************************************************************)
(* The sidebar controls of app.js: each input handler parses the control's *)
(* text and assigns the result.                                            *)
(***************************************************************************)
\* The texts a control delivers
Texts == {"", "abc", "0", "2.5", "-3", "500"}

\* parseFloat(text)
ParseFloat(text) ==
    CASE text = "0" -> Z(0)
      [] text = "2.5" -> Num(5, 2)
      [] text = "-3" -> Z(-3)
      [] text = "500" -> Z(500)
      [] OTHER -> NaN

\* parseInt(text, 10)
ParseInt(text) ==
    CASE text = "0" -> Z(0)
      [] text = "2.5" -> Z(2)
      [] text = "-3" -> Z(-3)
      [] text = "500" -> Z(500)
      [] OTHER -> NaN

\* the 'input' handler of a control; x || 1 is 1 when x is NaN or 0
onInput(w, control, text) ==
    CASE control = "gridN" ->
           set_gridN(w, IF IsNaN(ParseInt(text)) \/ ParseInt(text) = Z(0)
                        THEN Z(1) ELSE ParseInt(text))
      [] control = "cellSize" -> set_cellSize(w, ParseFloat(text))
      [] control = "rotation" -> set_rotation(w, ParseFloat(text))
      [] control = "lineWidth" -> set_lineWidth(w, ParseFloat(text))
      [] control = "lineOpacity" -> set_lineOpacity(w, ParseFloat(text))

(***************************************************************************)
(* The formation editor                                                    *)
(***************************************************************************)
\* The value of an array index that was never assigned
Undefined == <<"undefined">>

\* buildFormationUI(): one row per entry of rows, in order; the handlers of the
\* row built for index i capture i (counted from 0)
buildFormationUI(rows) == [k \in 1..Len(rows) |-> [i |-> k - 1]]

\* Math.max(1, Math.min(20, parseInt(input.value, 10) || 1))
rowCount(text) ==
    LET parsed == ParseInt(text)
        count == IF IsNaN(parsed) \/ parsed = Z(0) THEN Z(1) ELSE parsed
    IN  MathMax(Z(1), MathMin(Z(20), count))

\* rows[i] = v: an index past the end lengthens the array, leaving holes
store(rows, i, v) ==
    [k \in 1..(IF i + 1 > Len(rows) THEN i + 1 ELSE Len(rows)) |->
        IF k = i + 1 THEN v ELSE IF k <= Len(rows) THEN rows[k] ELSE Undefined]

\* rows.splice(i, 1): an index past the end removes nothing
splice(rows, i) ==
    IF i + 1 > Len(rows) THEN rows
    ELSE SubSeq(rows, 1, i) \o SubSeq(rows, i + 2, Len(rows))

\* the 'input' handler of the row that captured i; the rows are not rebuilt
onRowInput(f, i, text) == [f EXCEPT !.rows = store(@, i, rowCount(text))]

\* the remove button's handler that does not rebuild the rows
onRowRemove_noRebuild(f, i) ==
    LET spliced == splice(f.rows, i)
    IN  [f EXCEPT !.rows = IF spliced = <<>> THEN <<Z(1)>> ELSE spliced]

\* the remove button's 'click' handler of the row that captured i
onRowRemove(f, i) ==
    LET spliced == splice(f.rows, i)
        rows == IF spliced = <<>> THEN <<Z(1)>> ELSE spliced
    IN  [rows |-> rows, el |-> buildFormationUI(rows)]

\* btnAddRow's 'click' handler
onAddRow(f) ==
    LET rows == Append(f.rows, Z(1))
    IN  [rows |-> rows, el |-> buildFormationUI(rows)]

\* let formationRows = [1], and the buildFormationUI() call at the end of the script
InitFormation == [rows |-> <<Z(1)>>, el |-> buildFormationUI(<<Z(1)>>)]

(***************************************************************************)
(* Gestures                                                                *)
(***************************************************************************)
InitGestures ==
    [dragging |-> FALSE, dragStartX |-> Z(0), dragStartY |-> Z(0),
     configStartX |-> Z(0), configStartY |-> Z(0),
     touchIds |-> <<>>, initialPinchDist |-> Z(0), initialCellSize |-> Z(0),
     initialAngle |-> Z(0), initialRotation |-> Z(0)]

\* e: [pointerType, clientX, clientY]
onPointerDown(w, e) ==
    IF e.pointerType = "touch" THEN w
    ELSE [w EXCEPT !.gestures.dragging = TRUE,
                   !.gestures.dragStartX = e.clientX,
                   !.gestures.dragStartY = e.clientY,
                   !.gestures.configStartX = w.config.positionX,
                   !.gestures.configStartY = w.config.positionY]

\* pointer-move adding the delta to the current position
onPointerMove_incremental(w, e) ==
    IF ~w.gestures.dragging THEN w
    ELSE LET dx == Sub(e.clientX, w.gestures.dragStartX)
             dy == Sub(e.clientY, w.gestures.dragStartY)
         IN  set_positionY(set_positionX(w, Add(w.config.positionX, dx)),
                           Add(w.config.positionY, dy))

onPointerMove(w, e) ==
    IF ~w.gestures.dragging THEN w
    ELSE LET dx == Sub(e.clientX, w.gestures.dragStartX)
             dy == Sub(e.clientY, w.gestures.dragStartY)
         IN  set_positionY(set_positionX(w, Add(w.gestures.configStartX, dx)),
                           Add(w.gestures.configStartY, dy))

\* pointer-up that leaves the drag active
onPointerUp_stillDragging(w, e) == w

onPointerUp(w, e) ==
    IF ~w.gestures.dragging THEN w
    ELSE [w EXCEPT !.gestures.dragging = FALSE]

\* Math.atan2(y, x) as a multiple of pi, on the axis directions the model's
\* contacts produce (atan2(0, 0) is 0)
MathAtan2(y, x) ==
    CASE y = Z(0) /\ Le(Z(0), x) -> Z(0)
      [] y = Z(0) /\ Lt(x, Z(0)) -> Z(1)
      [] x = Z(0) /\ Lt(Z(0), y) -> Num(1, 2)
      [] x = Z(0) /\ Lt(y, Z(0)) -> Num(-1, 2)

\* a, b: touches [identifier, clientX, clientY]
dist(a, b) ==
    LET dx == Sub(a.clientX, b.clientX)
        dy == Sub(a.clientY, b.clientY)
    IN  MathSqrt(Add(Mul(dx, dx), Mul(dy, dy)))

angle(a, b) == MathAtan2(Sub(b.clientY, a.clientY), Sub(b.clientX, a.clientX))

\* this.#touchIds[k]: <<id>>, or <<>> for undefined
touchId(w, k) ==
    IF k <= Len(w.gestures.touchIds) THEN <<w.gestures.touchIds[k]>> ELSE <<>>

\* the first touch of list whose identifier is id: <<touch>>, or <<>> for null
findTouch(list, id) ==
    LET hits == SelectSeq(list, LAMBDA t : id = <<t.identifier>>)
    IN  IF hits = <<>> THEN <<>> ELSE <<hits[1]>>

\* touch-start keeping the anchors of an earlier gesture
onTouchStart_stale(w, e) ==
    IF Len(e.touches) = 2
    THEN LET t0 == e.touches[1]
             t1 == e.touches[2]
         IN  IF Lt(Z(0), w.gestures.initialPinchDist)
             THEN [w EXCEPT !.gestures.touchIds = <<t0.identifier, t1.identifier>>]
             ELSE [w EXCEPT !.gestures.touchIds = <<t0.identifier, t1.identifier>>,
                            !.gestures.initialPinchDist = dist(t0, t1),
                            !.gestures.initialCellSize = w.config.cellSize,
                            !.gestures.initialAngle = angle(t0, t1),
                            !.gestures.initialRotation = w.config.rotation]
    ELSE w

\* e: [touches], the active contacts in order
onTouchStart(w, e) ==
    IF Len(e.touches) = 2
    THEN LET t0 == e.touches[1]
             t1 == e.touches[2]
         IN  [w EXCEPT !.gestures.touchIds = <<t0.identifier, t1.identifier>>,
                       !.gestures.initialPinchDist = dist(t0, t1),
                       !.gestures.initialCellSize = w.config.cellSize,
                       !.gestures.initialAngle = angle(t0, t1),
                       !.gestures.initialRotation = w.config.rotation]
    ELSE w

\* pinch scaling the current cell size
pinch_incremental(w, t0, t1) ==
    IF Lt(Z(0), w.gestures.initialPinchDist)
    THEN LET scale == Div(dist(t0, t1), w.gestures.initialPinchDist)
         IN  set_cellSize(w, Mul(w.config.cellSize, scale))
    ELSE w

\* pinch that writes the anchored cell size back when the anchored distance is 0
pinch_unguarded(w, t0, t1) ==
    IF Lt(Z(0), w.gestures.initialPinchDist)
    THEN LET scale == Div(dist(t0, t1), w.gestures.initialPinchDist)
         IN  set_cellSize(w, Mul(w.gestures.initialCellSize, scale))
    ELSE set_cellSize(w, w.gestures.initialCellSize)

\* Pinch -> cell size
pinch(w, t0, t1) ==
    IF Lt(Z(0), w.gestures.initialPinchDist)
    THEN LET scale == Div(dist(t0, t1), w.gestures.initialPinchDist)
         IN  set_cellSize(w, Mul(w.gestures.initialCellSize, scale))
    ELSE w

\* rotation adding the delta to the current rotation
rotate_incremental(w, t0, t1) ==
    LET deltaDeg == Mul(Sub(angle(t0, t1), w.gestures.initialAngle), Z(180))
    IN  set_rotation(w, Add(w.config.rotation, deltaDeg))

\* Rotation: the angle delta in radians, times 180 / pi
rotate(w, t0, t1) ==
    LET deltaDeg == Mul(Sub(angle(t0, t1), w.gestures.initialAngle), Z(180))
    IN  set_rotation(w, Add(w.gestures.initialRotation, deltaDeg))

\* touch-move accepting more than two contacts
onTouchMove_atLeastTwo(w, e) ==
    IF Len(e.touches) < 2 THEN w
    ELSE LET t0 == findTouch(e.touches, touchId(w, 1))
             t1 == findTouch(e.touches, touchId(w, 2))
         IN  IF t0 = <<>> \/ t1 = <<>> THEN w
             ELSE rotate(pinch(w, t0[1], t1[1]), t0[1], t1[1])

onTouchMove(w, e) ==
    IF Len(e.touches) # 2 THEN w
    ELSE LET t0 == findTouch(e.touches, touchId(w, 1))
             t1 == findTouch(e.touches, touchId(w, 2))
         IN  IF t0 = <<>> \/ t1 = <<>> THEN w
             ELSE rotate(pinch(w, t0[1], t1[1]), t0[1], t1[1])

\* touch-end keeping the anchored identifiers
onTouchEnd_keepsIds(w) == w

onTouchEnd(w) == [w EXCEPT !.gestures.touchIds = <<>>]

\* wheel handler applying the whole deltaY
onWheel_unscaled(w, e) ==
    IF e.ctrlKey
    THEN LET delta == Neg(e.deltaY)
         IN  set_cellSize(w, Add(w.config.cellSize, delta))
    ELSE w

\* e: [ctrlKey, deltaY]
onWheel(w, e) ==
    IF e.ctrlKey
    THEN LET delta == Mul(Neg(e.deltaY), Num(1, 2))
         IN  set_cellSize(w, Add(w.config.cellSize, delta))
    ELSE w

(***************************************************************************)
(* GridRenderer.  A 2D context is modelled by the sequence of calls issued *)
(* on it; an angle in radians is kept as a multiple of pi.                 *)
(***************************************************************************)
\* #syncSize: backing size = CSS size x devicePixelRatio, context scaled by it
syncSize(w, dpr) ==
    LET ratio == IF dpr = Z(0) THEN Z(1) ELSE dpr
        c == w.renderer.canvas
    IN  [w EXCEPT !.renderer.canvas.width = Mul(c.clientWidth, ratio),
                  !.renderer.canvas.height = Mul(c.clientHeight, ratio),
                  !.renderer.scale = ratio]

\* #draw: the calls issued on the live context
draw(w) ==
    LET cw == w.renderer.canvas.clientWidth
        ch == w.renderer.canvas.clientHeight
        cfg == w.config
        n == effectiveN(w)
        cell == cfg.cellSize
        total == Mul(n, cell)
        rot == Div(cfg.rotation, Z(180))
        vertical == [k \in 1..2 * (n[1] + 1) |->
                        LET x == Mul(Z((k - 1) \div 2), cell)
                        IN  IF k % 2 = 1 THEN <<"moveTo", x, Z(0)>>
                                         ELSE <<"lineTo", x, total>>]
        horizontal == [k \in 1..2 * (n[1] + 1) |->
                        LET y == Mul(Z((k - 1) \div 2), cell)
                        IN  IF k % 2 = 1 THEN <<"moveTo", Z(0), y>>
                                         ELSE <<"lineTo", total, y>>]
    IN  << <<"clearRect", Z(0), Z(0), cw, ch>>,
           <<"save">>,
           <<"translate", Add(Div(cw, Z(2)), cfg.positionX),
                          Add(Div(ch, Z(2)), cfg.positionY)>>,
           <<"rotate", rot>>,
           <<"translate", Div(Neg(total), Z(2)), Div(Neg(total), Z(2))>>,
           <<"strokeStyle", cfg.lineColor>>,
           <<"lineWidth", cfg.lineWidth>>,
           <<"globalAlpha", cfg.lineOpacity>>,
           <<"beginPath">> >>
        \o vertical \o horizontal
        \o << <<"stroke">>, <<"restore">> >>

\* drawTo whose loop over the horizontal lines stops one line short
drawTo_shortLoop(w, width, height) ==
    LET cfg == w.config
        n == effectiveN(w)
        cell == cfg.cellSize
        total == Mul(n, cell)
        rot == Div(cfg.rotation, Z(180))
        vertical == [k \in 1..2 * (n[1] + 1) |->
                        LET x == Mul(Z((k - 1) \div 2), cell)
                        IN  IF k % 2 = 1 THEN <<"moveTo", x, Z(0)>>
                                         ELSE <<"lineTo", x, total>>]
        horizontal == [k \in 1..2 * n[1] |->
                        LET y == Mul(Z((k - 1) \div 2), cell)
                        IN  IF k % 2 = 1 THEN <<"moveTo", Z(0), y>>
                                         ELSE <<"lineTo", total, y>>]
    IN  << <<"save">>,
           <<"translate", Add(Div(width, Z(2)), cfg.positionX),
                          Add(Div(height, Z(2)), cfg.positionY)>>,
           <<"rotate", rot>>,
           <<"translate", Div(Neg(total), Z(2)), Div(Neg(total), Z(2))>>,
           <<"strokeStyle", cfg.lineColor>>,
           <<"lineWidth", cfg.lineWidth>>,
           <<"globalAlpha", cfg.lineOpacity>>,
           <<"beginPath">> >>
        \o vertical \o horizontal
        \o << <<"stroke">>, <<"restore">> >>

\* drawTo reading the live canvas's size instead of its arguments
drawTo_liveSize(w, width, height) ==
    LET cfg == w.config
        n == effectiveN(w)
        cell == cfg.cellSize
        total == Mul(n, cell)
        rot == Div(cfg.rotation, Z(180))
        vertical == [k \in 1..2 * (n[1] + 1) |->
                        LET x == Mul(Z((k - 1) \div 2), cell)
                        IN  IF k % 2 = 1 THEN <<"moveTo", x, Z(0)>>
                                         ELSE <<"lineTo", x, total>>]
        horizontal == [k \in 1..2 * (n[1] + 1) |->
                        LET y == Mul(Z((k - 1) \div 2), cell)
                        IN  IF k % 2 = 1 THEN <<"moveTo", Z(0), y>>
                                         ELSE <<"lineTo", total, y>>]
    IN  << <<"save">>,
           <<"translate", Add(Div(w.renderer.canvas.clientWidth, Z(2)), cfg.positionX),
                          Add(Div(w.renderer.canvas.clientHeight, Z(2)), cfg.positionY)>>,
           <<"rotate", rot>>,
           <<"translate", Div(Neg(total), Z(2)), Div(Neg(total), Z(2))>>,
           <<"strokeStyle", cfg.lineColor>>,
           <<"lineWidth", cfg.lineWidth>>,
           <<"globalAlpha", cfg.lineOpacity>>,
           <<"beginPath">> >>
        \o vertical \o horizontal
        \o << <<"stroke">>, <<"restore">> >>

\* drawTo without the translation that centres the grid on its origin
drawTo_uncentred(w, width, height) ==
    LET cfg == w.config
        n == effectiveN(w)
        cell == cfg.cellSize
        total == Mul(n, cell)
        rot == Div(cfg.rotation, Z(180))
        vertical == [k \in 1..2 * (n[1] + 1) |->
                        LET x == Mul(Z((k - 1) \div 2), cell)
                        IN  IF k % 2 = 1 THEN <<"moveTo", x, Z(0)>>
                                         ELSE <<"lineTo", x, total>>]
        horizontal == [k \in 1..2 * (n[1] + 1) |->
                        LET y == Mul(Z((k - 1) \div 2), cell)
                        IN  IF k % 2 = 1 THEN <<"moveTo", Z(0), y>>
                                         ELSE <<"lineTo", total, y>>]
    IN  << <<"save">>,
           <<"translate", Add(Div(width, Z(2)), cfg.positionX),
                          Add(Div(height, Z(2)), cfg.positionY)>>,
           <<"rotate", rot>>,
           <<"strokeStyle", cfg.lineColor>>,
           <<"lineWidth", cfg.lineWidth>>,
           <<"globalAlpha", cfg.lineOpacity>>,
           <<"beginPath">> >>
        \o vertical \o horizontal
        \o << <<"stroke">>, <<"restore">> >>

\* drawTo that does not restore the context it saved
drawTo_noRestore(w, width, height) ==
    LET cfg == w.config
        n == effectiveN(w)
        cell == cfg.cellSize
        total == Mul(n, cell)
        rot == Div(cfg.rotation, Z(180))
        vertical == [k \in 1..2 * (n[1] + 1) |->
                        LET x == Mul(Z((k - 1) \div 2), cell)
                        IN  IF k % 2 = 1 THEN <<"moveTo", x, Z(0)>>
                                         ELSE <<"lineTo", x, total>>]
        horizontal == [k \in 1..2 * (n[1] + 1) |->
                        LET y == Mul(Z((k - 1) \div 2), cell)
                        IN  IF k % 2 = 1 THEN <<"moveTo", Z(0), y>>
                                         ELSE <<"lineTo", total, y>>]
    IN  << <<"save">>,
           <<"translate", Add(Div(width, Z(2)), cfg.positionX),
                          Add(Div(height, Z(2)), cfg.positionY)>>,
           <<"rotate", rot>>,
           <<"translate", Div(Neg(total), Z(2)), Div(Neg(total), Z(2))>>,
           <<"strokeStyle", cfg.lineColor>>,
           <<"lineWidth", cfg.lineWidth>>,
           <<"globalAlpha", cfg.lineOpacity>>,
           <<"beginPath">> >>
        \o vertical \o horizontal
        \o << <<"stroke">> >>

\* drawTo(ctx, width, height): the calls issued on the target context
drawTo(w, width, height) ==
    LET cfg == w.config
        n == effectiveN(w)
        cell == cfg.cellSize
        total == Mul(n, cell)
        rot == Div(cfg.rotation, Z(180))
        vertical == [k \in 1..2 * (n[1] + 1) |->
                        LET x == Mul(Z((k - 1) \div 2), cell)
                        IN  IF k % 2 = 1 THEN <<"moveTo", x, Z(0)>>
                                         ELSE <<"lineTo", x, total>>]
        horizontal == [k \in 1..2 * (n[1] + 1) |->
                        LET y == Mul(Z((k - 1) \div 2), cell)
                        IN  IF k % 2 = 1 THEN <<"moveTo", Z(0), y>>
                                         ELSE <<"lineTo", total, y>>]
    IN  << <<"save">>,
           <<"translate", Add(Div(width, Z(2)), cfg.positionX),
                          Add(Div(height, Z(2)), cfg.positionY)>>,
           <<"rotate", rot>>,
           <<"translate", Div(Neg(total), Z(2)), Div(Neg(total), Z(2))>>,
           <<"strokeStyle", cfg.lineColor>>,
           <<"lineWidth", cfg.lineWidth>>,
           <<"globalAlpha", cfg.lineOpacity>>,
           <<"beginPath">> >>
        \o vertical \o horizontal
        \o << <<"stroke">>, <<"restore">> >>

\* #loop redrawing on every frame
loop_everyFrame(w) ==
    LET scheduled == [w EXCEPT !.renderer.rafId = (@ % 3) + 1,
                               !.renderer.scheduled = @ \cup {(w.renderer.rafId % 3) + 1}]
    IN  [scheduled EXCEPT !.renderer.needsDraw = FALSE,
                          !.renderer.ops = draw(scheduled),
                          !.calls = Append(@, [fn |-> "#draw", seen |-> w.config])]

\* #loop: schedule the next frame, then redraw if the dirty flag is set; the
\* call of #draw is logged
loop(w) ==
    LET scheduled == [w EXCEPT !.renderer.rafId = (@ % 3) + 1,
                               !.renderer.scheduled = @ \cup {(w.renderer.rafId % 3) + 1}]
    IN  IF ~scheduled.renderer.needsDraw THEN scheduled
        ELSE [scheduled EXCEPT !.renderer.needsDraw = FALSE,
                               !.renderer.ops = draw(scheduled),
                               !.calls = Append(@, [fn |-> "#draw", seen |-> w.config])]

\* the browser runs the frame callback with handle h, which is pending no more
frame(w, h) == loop([w EXCEPT !.renderer.scheduled = @ \ {h}])

\* new ResizeObserver(..).observe(canvas)
observe(w) == [w EXCEPT !.renderer.observing = TRUE]

\* destroy cancelling the handle scheduled before the latest one
destroy_stale(w) ==
    [w EXCEPT !.renderer.scheduled = @ \ {((w.renderer.rafId + 1) % 3) + 1},
              !.renderer.observing = FALSE]

\* destroy(): cancelAnimationFrame(#rafId), then the observer is disconnected
destroy(w) ==
    [w EXCEPT !.renderer.scheduled = @ \ {w.renderer.rafId},
              !.renderer.observing = FALSE]

\* a ResizeObserver callback that resizes without setting the dirty flag
onResize_noFlag(w, size, dpr) ==
    LET resized == [w EXCEPT !.renderer.canvas.clientWidth = size[1],
                             !.renderer.canvas.clientHeight = size[2]]
    IN  syncSize(resized, dpr)

\* the ResizeObserver callback, the canvas having its new CSS size
onResize(w, size, dpr) ==
    LET resized == [w EXCEPT !.renderer.canvas.clientWidth = size[1],
                             !.renderer.canvas.clientHeight = size[2]]
    IN  [syncSize(resized, dpr) EXCEPT !.renderer.needsDraw = TRUE]

\* The state after app.js ran: the renderer is constructed (listener registered,
\* #syncSize, first #loop), then Gestures, then syncUI is registered.
InitSize == <<Z(300), Z(300)>>

FieldInit ==
    [config |-> InitConfig,
     listeners |-> <<>>,
     gestures |-> InitGestures,
     renderer |-> [needsDraw |-> TRUE, rafId |-> 0, scale |-> Z(1), ops |-> <<>>,
                   scheduled |-> {}, observing |-> FALSE,
                   canvas |-> [clientWidth |-> InitSize[1], clientHeight |-> InitSize[2],
                               width |-> InitSize[1], height |-> InitSize[2]]],
     calls |-> <<>>, own |-> {}, thrown |-> "none"]

Constructed ==
    onChange(loop(syncSize(observe(onChange(FieldInit, "render")), Z(1))), "syncUI")

(***************************************************************************)
(* Inputs of the handlers.                                                 *)
(***************************************************************************)
SetterInputs ==
    [gridN |-> {Num(-7, 2), Z(0), Num(5, 2), Num(13, 5), Z(200)},
     cellSize |-> {Z(5), Z(100), Z(500)},
     rotation |-> {Z(-200), Z(170), Z(200)},
     positionX |-> {Z(7)},
     positionY |-> {Z(-40)},
     lineColor |-> {"#ff0000"},
     lineWidth |-> {Z(0), Z(2), Z(6)},
     lineOpacity |-> {Z(0), Num(1, 2), Z(2)}]

UpdateInputs ==
    { <<>>,
      << <<"cellSize", Z(500)>> >>,
      << <<"gridN", Z(0)>>, <<"rotation", Z(200)>> >>,
      << <<"positionX", Z(7)>>, <<"lineWidth", Z(6)>>, <<"lineOpacity", Z(0)>> >> }

PointerEvents ==
    { [pointerType |-> k, clientX |-> Z(p[1]), clientY |-> Z(p[2])] :
        k \in {"mouse", "touch"}, p \in {<<0, 0>>, <<5, 3>>, <<8, -2>>} }

\* Contacts lie on the two axes, so that distances and angles are exact:
\* the pairs of positions of a list's first and second contact.
PointPairs ==
    { <<<<0, 0>>, <<0, 0>>>>, <<<<0, 0>>, <<10, 0>>>>, <<<<0, 0>>, <<20, 0>>>>,
      <<<<0, 0>>, <<0, 20>>>>, <<<<10, 0>>, <<0, 0>>>>, <<<<0, 20>>, <<0, 0>>>> }

Touch(id, p) == [identifier |-> id, clientX |-> Z(p[1]), clientY |-> Z(p[2])]

TouchLists ==
    { <<Touch(0, <<0, 0>>)>> }
    \cup { <<Touch(0, pq[1]), Touch(b, pq[2])>> : b \in {1, 2}, pq \in PointPairs }
    \cup { <<Touch(0, <<0, 0>>), Touch(1, <<10, 0>>), Touch(2, <<0, 0>>)>> }

\* update's arguments with keys that name no field: a name the object does not
\* have, the derived getters, and methods
ForeignInputs ==
    { << <<"foo", Z(1)>> >>,
      << <<"effectiveN", Z(3)>> >>,
      << <<"totalGridSize", Z(0)>> >>,
      << <<"centerGrid", Z(0)>> >>,
      << <<"update", Z(0)>> >>,
      << <<"foo", Z(1)>>, <<"cellSize", Z(100)>> >>,
      << <<"cellSize", Z(100)>>, <<"effectiveN", Z(3)>>, <<"rotation", Z(200)>> >> }

WheelEvents == [ctrlKey : BOOLEAN, deltaY : {Z(-100), Z(30)}]

Sizes == {<<Z(300), Z(300)>>, <<Z(200), Z(100)>>}

PixelRatios == {Z(1), Z(2)}

\* Target sizes of drawTo, degenerate ones included
TargetSizes == Sizes \cup {<<Z(0), Z(0)>>, <<Z(0), Z(100)>>, <<Z(200), Z(0)>>}

(***************************************************************************)
(* The state machine.                                                      *)
(***************************************************************************)
\* The program state at the start of a handler
World ==
    [config |-> config, listeners |-> listeners, gestures |-> gestures,
     renderer |-> renderer, calls |-> <<>>, own |-> own, thrown |-> "none"]

NoAnchor == [ids |-> <<>>, dist |-> Z(0), angle |-> Z(0), cell |-> Z(0), rot |-> Z(0)]

Init ==
    /\ config = Constructed.config
    /\ listeners = Constructed.listeners
    /\ gestures = Constructed.gestures
    /\ renderer = Constructed.renderer
    /\ snapshot = [ops |-> <<>>, width |-> Z(0), height |-> Z(0), config |-> InitConfig]
    /\ calls = <<>>
    /\ last = "init"
    /\ hist = [drag |-> [active |-> FALSE, moves |-> 0,
                        cx |-> Z(0), cy |-> Z(0), px |-> Z(0), py |-> Z(0),
                        intervened |-> FALSE, overwrote |-> FALSE],
               anchored |-> FALSE, anchor |-> NoAnchor, previous |-> NoAnchor,
               trail |-> <<>>, move |-> "none", repeat |-> FALSE,
               centred |-> <<Z(0), Z(0)>>, removed |-> {}, destroyed |-> FALSE,
               rowsBefore |-> <<>>,
               live |-> [config |-> InitConfig, width |-> InitSize[1], height |-> InitSize[2]]]
    /\ steps = 0
    /\ own = Constructed.own
    /\ thrown = Constructed.thrown
    /\ formationRows = InitFormation.rows
    /\ formationRowsEl = InitFormation.el

\* A handler ran to completion: left is the program state it leaves
Ran(left, op) ==
    \E w \in {left} :
       /\ config' = w.config
       /\ listeners' = w.listeners
       /\ gestures' = w.gestures
       /\ renderer' = w.renderer
       /\ calls' = w.calls
       /\ own' = w.own
       /\ thrown' = w.thrown
       /\ last' = op
       /\ UNCHANGED <<formationRows, formationRowsEl>>

\* ... and it counts as one step of the run
Run(w, op) ==
    /\ Ran(w, op)
    /\ steps' = steps + 1

\* config[key] = v, from a sidebar control or any caller
Assign(key, v) ==
    /\ Run(assign(World, key, v), "set")
    /\ hist' = IF hist.drag.active /\ key \in {"positionX", "positionY"}
               THEN [hist EXCEPT !.drag.intervened = TRUE]
               ELSE hist
    /\ UNCHANGED snapshot

\* the 'input' event of a sidebar control holding text
Input(control, text) ==
    /\ Run(onInput(World, control, text), "input")
    /\ UNCHANGED <<snapshot, hist>>

CenterGrid ==
    /\ Run(call(World, "centerGrid", centerGrid(World)), "centerGrid")
    /\ hist' = IF thrown' # "none" THEN hist
               ELSE [hist EXCEPT !.centred = <<config.positionX, config.positionY>>,
                                 !.drag.intervened = @ \/ hist.drag.active]
    /\ UNCHANGED snapshot

Update(props) ==
    /\ Run(call(World, "update", update(World, props)), "update")
    /\ UNCHANGED <<snapshot, hist>>

OnChange(fn) ==
    /\ \A i \in 1..Len(listeners) : listeners[i] # fn
    /\ Run(call(World, "onChange", onChange(World, fn)), "onChange")
    /\ hist' = IF thrown' # "none" THEN hist ELSE [hist EXCEPT !.removed = @ \ {fn}]
    /\ UNCHANGED snapshot

Unsubscribe(fn) ==
    /\ \E i \in 1..Len(listeners) : listeners[i] = fn
    /\ Run(unsubscribe(World, fn), "unsubscribe")
    /\ hist' = [hist EXCEPT !.removed = @ \cup {fn}]
    /\ UNCHANGED snapshot

PointerDown(e) ==
    /\ Run(onPointerDown(World, e), "pointerdown")
    /\ hist' = IF e.pointerType = "touch" THEN hist
               ELSE [hist EXCEPT !.drag = [active |-> TRUE, moves |-> 0,
                                           cx |-> e.clientX, cy |-> e.clientY,
                                           px |-> config.positionX, py |-> config.positionY,
                                           intervened |-> FALSE, overwrote |-> FALSE]]
    /\ UNCHANGED snapshot

PointerMove(e) ==
    /\ Run(onPointerMove(World, e), "pointermove")
    /\ hist' = IF hist.drag.active
               THEN [hist EXCEPT !.drag.moves = @ + 1,
                                 !.drag.overwrote = hist.drag.intervened,
                                 !.drag.intervened = FALSE]
               ELSE hist
    /\ UNCHANGED snapshot

PointerUp(e) ==
    /\ Run(onPointerUp(World, e), "pointerup")
    /\ hist' = [hist EXCEPT !.drag.active = FALSE]
    /\ UNCHANGED snapshot

\* the last three contact counts reported by touchstart and touchend events
Trail(n) == IF Len(hist.trail) < 3 THEN Append(hist.trail, n) ELSE Append(Tail(hist.trail), n)

TouchStart(e) ==
    /\ Run(onTouchStart(World, e), "touchstart")
    /\ hist' = IF Len(e.touches) = 2
               THEN [hist EXCEPT !.anchored = TRUE,
                                 !.previous = hist.anchor,
                                 !.anchor = [ids |-> <<e.touches[1].identifier, e.touches[2].identifier>>,
                                             dist |-> dist(e.touches[1], e.touches[2]),
                                             angle |-> angle(e.touches[1], e.touches[2]),
                                             cell |-> config.cellSize,
                                             rot |-> config.rotation],
                                 !.trail = Trail(2)]
               ELSE [hist EXCEPT !.trail = Trail(Len(e.touches))]
    /\ UNCHANGED snapshot

\* The contact of list t with identifier id, if any
Present(t, id) == \E i \in 1..Len(t) : t[i].identifier = id

Contact(t, id) == t[CHOOSE i \in 1..Len(t) : t[i].identifier = id]

\* How a touch-move's contacts relate to the gesture anchored by the events so far
MoveKind(t) ==
    IF Len(t) # 2 THEN "count"
    ELSE IF ~hist.anchored THEN "none"
    ELSE IF Present(t, hist.anchor.ids[1]) /\ Present(t, hist.anchor.ids[2]) THEN "both"
    ELSE "absent"

TouchMove(e) ==
    /\ Run(onTouchMove(World, e), "touchmove")
    /\ hist' = [hist EXCEPT !.move = MoveKind(e.touches)]
    /\ UNCHANGED snapshot

\* remaining: the number of contacts still active, which the handler does not read
TouchEnd(remaining) ==
    /\ Run(onTouchEnd(World), "touchend")
    /\ hist' = [hist EXCEPT !.anchored = FALSE, !.trail = Trail(remaining)]
    /\ UNCHANGED snapshot

Wheel(e) ==
    /\ Run(onWheel(World, e), "wheel")
    /\ UNCHANGED <<snapshot, hist>>

\* a pending frame callback of requestAnimationFrame runs
FrameCallback ==
    /\ \E h \in renderer.scheduled : Ran(frame(World, h), "frame")
    /\ hist' = IF renderer.needsDraw
               THEN [hist EXCEPT !.live = [config |-> config,
                                           width |-> renderer.canvas.clientWidth,
                                           height |-> renderer.canvas.clientHeight]]
               ELSE hist
    /\ UNCHANGED snapshot

Frame ==
    /\ FrameCallback
    /\ steps' = steps + 1

\* a frame callback in a run that counts only the other handlers
Tick ==
    /\ FrameCallback
    /\ UNCHANGED steps

\* the ResizeObserver, while observing, reports a new size of the canvas
Resize(size, dpr) ==
    /\ renderer.observing
    /\ size # <<renderer.canvas.clientWidth, renderer.canvas.clientHeight>>
    /\ Run(onResize(World, size, dpr), "resize")
    /\ UNCHANGED <<snapshot, hist>>

\* the canvas element takes a new size while no observer watches it
ElementResize(size) ==
    /\ ~renderer.observing
    /\ size # <<renderer.canvas.clientWidth, renderer.canvas.clientHeight>>
    /\ Run([World EXCEPT !.renderer.canvas.clientWidth = size[1],
                         !.renderer.canvas.clientHeight = size[2]], "resized")
    /\ UNCHANGED <<snapshot, hist>>

Destroy ==
    /\ Run(destroy(World), "destroy")
    /\ hist' = [hist EXCEPT !.destroyed = TRUE]
    /\ UNCHANGED snapshot

\* captureSnapshot's call of drawTo on a fresh offscreen context
DrawTo(size) ==
    /\ Run(World, "drawTo")
    /\ snapshot' = [ops |-> drawTo(World, size[1], size[2]),
                    width |-> size[1], height |-> size[2], config |-> config]
    /\ hist' = [hist EXCEPT !.repeat = /\ snapshot.ops # <<>>
                                       /\ snapshot.width = size[1]
                                       /\ snapshot.height = size[2]
                                       /\ snapshot.config = config]

ConfigNext ==
    \/ \E key \in Fields : \E v \in SetterInputs[key] : Assign(key, v)
    \/ CenterGrid
    \/ \E props \in UpdateInputs : Update(props)
    \/ OnChange("observer")
    \/ Unsubscribe("observer")

PointerNext ==
    \/ \E e \in PointerEvents : PointerDown(e)
    \/ \E e \in PointerEvents : PointerMove(e)
    \/ \E e \in PointerEvents : PointerUp(e)

TouchNext ==
    \/ \E t \in TouchLists : TouchStart([touches |-> t])
    \/ \E t \in TouchLists : TouchMove([touches |-> t])
    \/ \E remaining \in 1..2 : TouchEnd(remaining)

WheelNext == \E e \in WheelEvents : Wheel(e)

RenderNext ==
    \/ Frame
    \/ \E size \in Sizes : \E dpr \in PixelRatios : Resize(size, dpr)
    \/ \E size \in Sizes : DrawTo(size)

\* Every handler of the program
Next ==
    /\ steps < MaxSteps
    /\ (ConfigNext \/ PointerNext \/ TouchNext \/ WheelNext \/ RenderNext)

Spec == Init /\ [][Next]_vars

\* The configuration and its listeners alone
NextConfig ==
    /\ steps < MaxConfigSteps
    /\ ConfigNext

SpecConfig == Init /\ [][NextConfig]_vars

\* The pointer drag, with the other writers of the position and the wheel
NextPointer ==
    /\ steps < MaxPointerSteps
    /\ \/ PointerNext
       \/ WheelNext
       \/ CenterGrid
       \/ \E v \in SetterInputs.positionX : Assign("positionX", v)

SpecPointer == Init /\ [][NextPointer]_vars

\* The two-contact gesture, with a setter of each anchored field
NextTouch ==
    /\ steps < MaxTouchSteps
    /\ \/ TouchNext
       \/ Assign("rotation", Z(170))
       \/ Assign("cellSize", Z(100))

SpecTouch == Init /\ [][NextTouch]_vars

\* The renderer, with some writers of the configuration
NextRender ==
    /\ steps < MaxRenderSteps
    /\ \/ RenderNext
       \/ \E key \in {"gridN", "rotation", "positionX", "lineWidth"} :
            \E v \in SetterInputs[key] : Assign(key, v)
       \/ CenterGrid

SpecRender == Init /\ [][NextRender]_vars

\* The renderer's life: frames, resizes and writers of the configuration, before
\* and after destroy()
NextDestroy ==
    /\ steps < MaxDestroySteps
    /\ \/ Frame
       \/ Destroy
       \/ \E key \in {"rotation", "positionX"} : \E v \in SetterInputs[key] : Assign(key, v)
       \/ CenterGrid
       \/ \E size \in Sizes : \E dpr \in PixelRatios : Resize(size, dpr)
       \/ \E size \in Sizes : ElementResize(size)

SpecDestroy == Init /\ [][NextDestroy]_vars

\* The formation editor's state at the start of a handler
Formation == [rows |-> formationRows, el |-> formationRowsEl]

\* A handler of the formation editor ran to completion, leaving f
RanFormation(f, op) ==
    /\ formationRows' = f.rows
    /\ formationRowsEl' = f.el
    /\ last' = op
    /\ steps' = steps + 1
    /\ hist' = [hist EXCEPT !.rowsBefore = formationRows]
    /\ UNCHANGED <<config, listeners, gestures, renderer, snapshot, calls, own, thrown>>

\* a click on the add-row button, while the list is shorter than MaxRows
AddRow ==
    /\ Len(formationRows) < MaxRows
    /\ RanFormation(onAddRow(Formation), "addRow")

\* a click on the remove button of the k-th row shown
RemoveRow(k) == RanFormation(onRowRemove(Formation, formationRowsEl[k].i), "removeRow")

\* the user types text into the count input of the k-th row shown
EditRow(k, text) == RanFormation(onRowInput(Formation, formationRowsEl[k].i, text), "editRow")

NextFormation ==
    /\ steps < MaxFormationSteps
    /\ \/ AddRow
       \/ \E k \in 1..Len(formationRowsEl) : RemoveRow(k)
       \/ \E k \in 1..Len(formationRowsEl) : \E text \in Texts : EditRow(k, text)

SpecFormation == Init /\ [][NextFormation]_vars

\* update with keys of every kind, and the callers of the methods a key may name
NextUpdate ==
    /\ steps < MaxUpdateSteps
    /\ \/ \E props \in UpdateInputs \cup ForeignInputs : Update(props)
       \/ CenterGrid
       \/ OnChange("observer")
       \/ \E v \in SetterInputs.positionX : Assign("positionX", v)

SpecUpdate == Init /\ [][NextUpdate]_vars

\* drawTo onto targets of any size, with writers of every field it reads
NextTarget ==
    /\ steps < MaxTargetSteps
    /\ \/ \E key \in {"gridN", "rotation", "positionX", "lineColor", "lineWidth", "lineOpacity"} :
            \E v \in SetterInputs[key] : Assign(key, v)
       \/ \E key \in {"rotation", "lineWidth"} : Assign(key, NaN)
       \/ \E size \in TargetSizes : DrawTo(size)

SpecTarget == Init /\ [][NextTarget]_vars

\* The listeners of the configuration, one of which unsubscribes itself when
\* it is notified
NextListeners ==
    /\ steps < MaxListenerSteps
    /\ \/ \E fn \in {"once", "observer"} : OnChange(fn)
       \/ \E fn \in {"once", "observer"} : Unsubscribe(fn)
       \/ \E v \in SetterInputs.cellSize : Assign("cellSize", v)
       \/ CenterGrid
       \/ \E props \in UpdateInputs : Update(props)

SpecListeners == Init /\ [][NextListeners]_vars

\* The render loop under fair delivery of frame callbacks: frames keep coming,
\* the mutations and resizes of a run are bounded
NextLive ==
    \/ Tick
    \/ /\ steps < MaxLiveSteps
       /\ \/ \E v \in SetterInputs.positionX : Assign("positionX", v)
          \/ Assign("rotation", Z(170))
          \/ Assign("gridN", Num(5, 2))
          \/ CenterGrid
          \/ \E size \in Sizes : Resize(size, Z(2))

SpecLive == Init /\ [][NextLive]_vars /\ WF_vars(Tick)

\* drawTo on offscreen targets, with the setters of the fields that place the grid
NextDraw ==
    /\ steps < MaxDrawSteps
    /\ \/ \E key \in {"gridN", "cellSize", "rotation", "positionX", "positionY"} :
            \E v \in SetterInputs[key] : Assign(key, v)
       \/ CenterGrid
       \/ \E size \in Sizes : DrawTo(size)

SpecDraw == Init /\ [][NextDraw]_vars

\* The sidebar's numeric controls, and callers assigning a value that is not a
\* number
NextParse ==
    /\ steps < MaxParseSteps
    /\ \/ \E control \in {"gridN", "cellSize", "rotation", "lineWidth", "lineOpacity"} :
            \E text \in Texts : Input(control, text)
       \/ \E key \in {"gridN", "cellSize", "rotation", "lineWidth", "lineOpacity"} :
            Assign(key, NaN)

SpecParse == Init /\ [][NextParse]_vars

(***************************************************************************)
(* Properties.                                                             *)
(***************************************************************************)
\* clamp(v, lo, hi), stated by cases
Clamp(v, lo, hi) == IF Lt(v, lo) THEN lo ELSE IF Lt(hi, v) THEN hi ELSE v

Between(v, lo, hi) == Le(lo, v) /\ Le(v, hi)

\* k is an integer and no integer is nearer to v
NearestInteger(k, v) ==
    /\ k[2] = 1
    /\ Le(Z(2 * Abs(Sub(v, k)[1])), Z(Sub(v, k)[2]))

\* The valid range of every clamped field of a configuration c
InRange(c) ==
    /\ c.gridN[2] = 1
    /\ Between(c.gridN, Z(1), Z(128))
    /\ Between(c.cellSize, Z(10), Z(400))
    /\ Between(c.rotation, Z(-180), Z(180))
    /\ Between(c.lineWidth, Num(1, 2), Z(5))
    /\ Between(c.lineOpacity, Num(1, 10), Z(1))

\* C1: in every reachable state the clamped fields are in their ranges (gridN an
\* integer in [1,128], cellSize in [10,400], rotation in [-180,180], lineWidth in
\* [0.5,5], lineOpacity in [0.1,1]), and so is every configuration a listener
\* read while it was being notified.
C1_RangesHold ==
    /\ InRange(config)
    /\ \A i \in 1..Len(calls) : InRange(calls[i].seen)

\* A pinch to distance 0 was clamped to the smallest cell size, with gridN at its
\* largest, and the listeners were notified of it.
C1_Witness ==
    /\ last = "touchmove"
    /\ calls # <<>>
    /\ config.cellSize = Z(10)
    /\ config.gridN = Z(128)

\* The value the claim expects field key to read back after key = v
ReadsBack(key, v, got) ==
    CASE key = "gridN" ->
           \E k \in {Z(v[1] \div v[2]), Z((v[1] \div v[2]) + 1)} :
              NearestInteger(k, v) /\ got = Clamp(k, Z(1), Z(128))
      [] key = "cellSize" -> got = Clamp(v, Z(10), Z(400))
      [] key = "rotation" -> got = Clamp(v, Z(-180), Z(180))
      [] key = "lineWidth" -> got = Clamp(v, Num(1, 2), Z(5))
      [] key = "lineOpacity" -> got = Clamp(v, Num(1, 10), Z(1))
      [] OTHER -> got = v

Clamped == {"gridN", "cellSize", "rotation", "lineWidth", "lineOpacity"}

\* C2: assigning v to cellSize, rotation, lineWidth or lineOpacity makes the field
\* read back as clamp(v, lo, hi) for its range, and assigning v to gridN makes it
\* read back as clamp(round(v), 1, 128), round being the nearest integer.
C2_SetterReadsBackClamped ==
    [][\A key \in Clamped : \A v \in SetterInputs[key] :
          Assign(key, v) => ReadsBack(key, v, config'[key])]_vars

\* Assignments have rounded gridN (2.5 or 2.6 to 3), and clamped cellSize from
\* above and rotation from below.
C2_Witness ==
    /\ last = "set"
    /\ config.gridN = Z(3)
    /\ config.cellSize = Z(400)
    /\ config.rotation = Z(-180)

\* C3: effectiveN is at least 1 in every reachable state, whatever was assigned
\* to gridN (0 and negative values included); it always equals gridN, so
\* totalGridSize is gridN * cellSize.
C3_EffectiveNAtLeastOne ==
    /\ Le(Z(1), effectiveN(World))
    /\ effectiveN(World) = config.gridN
    /\ totalGridSize(World) = Mul(config.gridN, config.cellSize)

\* gridN was assigned 0 or a negative value and reads 1.
C3_Witness ==
    /\ last \in {"set", "update"}
    /\ config.gridN = Z(1)
    /\ effectiveN(World) = Z(1)

\* C4: every setter call invokes each registered listener exactly once, in
\* order, after the new (clamped) value is stored: each listener reads the
\* configuration the setter leaves.
C4_SetterNotifiesEachListenerOnce ==
    [][\A key \in Fields : \A v \in SetterInputs[key] :
          Assign(key, v) =>
            /\ ReadsBack(key, v, config'[key])
            /\ calls' = [i \in 1..Len(listeners) |->
                            [fn |-> listeners[i], seen |-> config']]]_vars

\* Three listeners are registered and a setter that clamped cellSize to 400
\* called each of them once with the new value.
C4_Witness ==
    /\ last = "set"
    /\ Len(listeners) = 3
    /\ Len(calls) = 3
    /\ \A i \in 1..3 : calls[i].fn = listeners[i] /\ calls[i].seen.cellSize = Z(400)
    /\ config.cellSize = Z(400)

\* C5: drag is anchor-relative: after a non-touch pointer-down at (cx0, cy0) with
\* the position at (px0, py0), every pointer-move to (cx1, cy1) while the drag is
\* active sets the position to exactly (px0 + (cx1 - cx0), py0 + (cy1 - cy0)),
\* whatever moves came in between.
C5_DragIsAnchorRelative ==
    [][\A e \in PointerEvents :
          (last' = "pointermove" /\ hist.drag.active /\ PointerMove(e)) =>
            /\ config'.positionX = Add(hist.drag.px, Sub(e.clientX, hist.drag.cx))
            /\ config'.positionY = Add(hist.drag.py, Sub(e.clientY, hist.drag.cy))]_vars

\* A third move of a drag that started away from the origin left the grid away
\* from its anchor position.
C5_Witness ==
    /\ last = "pointermove"
    /\ hist.drag.active
    /\ hist.drag.moves >= 2
    /\ hist.drag.px # Z(0)
    /\ config.positionX # hist.drag.px
    /\ config.positionY # hist.drag.py

\* clamp(S0 * D1 / D0, 10, 400) for the anchored gesture and the contacts t
PinchedCellSize(t) ==
    LET d1 == dist(Contact(t, hist.anchor.ids[1]), Contact(t, hist.anchor.ids[2]))
    IN  Clamp(Div(Mul(hist.anchor.cell, d1), hist.anchor.dist), Z(10), Z(400))

\* clamp(R0 + (A1 - A0) in degrees, -180, 180) for the anchored gesture and the contacts t
TurnedRotation(t) ==
    LET a1 == angle(Contact(t, hist.anchor.ids[1]), Contact(t, hist.anchor.ids[2]))
    IN  Clamp(Add(hist.anchor.rot, Mul(Sub(a1, hist.anchor.angle), Z(180))),
              Z(-180), Z(180))

\* C6: pinch is anchor-relative: in a two-contact gesture anchored with distance
\* D0 > 0 and cell size S0, every touch-move of exactly the two anchored contacts,
\* at distance D1, sets cellSize to clamp(S0 * D1 / D0, 10, 400), whatever earlier
\* moves of the gesture did.
C6_PinchIsAnchorRelative ==
    [][\A t \in TouchLists :
          (/\ last' = "touchmove"
           /\ MoveKind(t) = "both"
           /\ Lt(Z(0), hist.anchor.dist)
           /\ TouchMove([touches |-> t])) =>
            config'.cellSize = PinchedCellSize(t)]_vars

\* A move of the anchored contacts scaled the cell size away from the one the
\* gesture was anchored with, itself not the start-up value.
C6_Witness ==
    /\ last = "touchmove"
    /\ hist.anchored
    /\ hist.move = "both"
    /\ Lt(Z(0), hist.anchor.dist)
    /\ hist.anchor.cell # Z(60)
    /\ config.cellSize # hist.anchor.cell
    /\ calls # <<>>

\* C7: two-finger rotation is anchor-relative and clamped: a touch-move of exactly
\* the two anchored contacts sets rotation to clamp(initialRotation + (currentAngle
\* - initialAngle, in degrees), -180, 180); from 170 a positive delta gives 180.
C7_RotationIsAnchorRelativeAndClamped ==
    [][\A t \in TouchLists :
          (last' = "touchmove" /\ MoveKind(t) = "both" /\ TouchMove([touches |-> t])) =>
            config'.rotation = TurnedRotation(t)]_vars

\* A gesture anchored at rotation 170 turned by a positive angle: the rotation
\* reads 180.
C7_Witness ==
    /\ last = "touchmove"
    /\ hist.anchored
    /\ hist.move = "both"
    /\ hist.anchor.rot = Z(170)
    /\ config.rotation = Z(180)
    /\ calls # <<>>

\* C8: a touch-move in which an identifier recorded at gesture start is absent, or
\* whose number of contacts is not two, leaves the whole configuration unchanged
\* and notifies no listener.
C8_MoveWithLostContactIsIgnored ==
    [][\A t \in TouchLists :
          (/\ last' = "touchmove"
           /\ MoveKind(t) \in {"absent", "count"}
           /\ TouchMove([touches |-> t])) =>
            (config' = config /\ calls' = <<>>)]_vars

\* A gesture was anchored, moved the configuration, and then a move with two
\* contacts, one of them not an anchored one, was ignored.
C8_Witness ==
    /\ last = "touchmove"
    /\ hist.anchored
    /\ hist.move = "absent"
    /\ config.cellSize # hist.anchor.cell
    /\ calls = <<>>

\* The anchor fields of Gestures
Anchors ==
    [ids |-> gestures.touchIds, dist |-> gestures.initialPinchDist,
     angle |-> gestures.initialAngle, cell |-> gestures.initialCellSize,
     rot |-> gestures.initialRotation]

\* C9: after a touch sequence from two contacts to one and back to two, the
\* identifiers, initial distance, initial angle, initial cellSize and initial
\* rotation that touch-moves use are those captured at the second transition to
\* two contacts.
C9_ReanchorsAfterTwoOneTwo ==
    [][(hist.trail = <<2, 1, 2>> /\ hist.anchored) =>
          /\ Anchors = hist.anchor
          /\ \A t \in TouchLists :
                (last' = "touchmove" /\ MoveKind(t) = "both" /\ TouchMove([touches |-> t])) =>
                   /\ config'.rotation = TurnedRotation(t)
                   /\ config'.cellSize = IF Lt(Z(0), hist.anchor.dist)
                                         THEN PinchedCellSize(t)
                                         ELSE config.cellSize]_vars

\* A second gesture, anchored differently from the first, moved the grid.
C9_Witness ==
    /\ last = "touchmove"
    /\ hist.trail = <<2, 1, 2>>
    /\ hist.anchored
    /\ hist.move = "both"
    /\ hist.previous.ids # <<>>
    /\ hist.previous.dist # hist.anchor.dist
    /\ hist.previous.angle # hist.anchor.angle
    /\ Anchors = hist.anchor
    /\ calls # <<>>

Transforms(ops) == SelectSeq(ops, LAMBDA op : op[1] \in {"translate", "rotate"})

StrokeStyle(ops) ==
    SelectSeq(ops, LAMBDA op : op[1] \in {"strokeStyle", "lineWidth", "globalAlpha"})

Segments(ops) == SelectSeq(ops, LAMBDA op : op[1] \in {"moveTo", "lineTo"})

\* C10: the live redraw and drawTo agree: for the same configuration and a target
\* size equal to the live surface's displayed size, #draw and drawTo issue the same
\* transforms, the same stroke style and the same ordered line segments.
C10_LiveDrawAndDrawToAgree ==
    (/\ snapshot.config = hist.live.config
     /\ snapshot.width = hist.live.width
     /\ snapshot.height = hist.live.height) =>
       /\ Transforms(renderer.ops) = Transforms(snapshot.ops)
       /\ StrokeStyle(renderer.ops) = StrokeStyle(snapshot.ops)
       /\ Segments(renderer.ops) = Segments(snapshot.ops)

\* A rotated, panned grid was redrawn on the live surface and then drawn to a
\* target of the same size.
C10_Witness ==
    /\ last = "drawTo"
    /\ snapshot.config = hist.live.config
    /\ snapshot.width = hist.live.width
    /\ snapshot.height = hist.live.height
    /\ config.rotation # Z(0)
    /\ config.positionX # Z(0)
    /\ Len(Segments(snapshot.ops)) = 4 * (config.gridN[1] + 1)

\* The line segments a sequence of context calls strokes, in target coordinates,
\* when the calls rotate by 0: each moveTo/lineTo pair, moved by the translations.
Lines(ops) ==
    LET tr == SelectSeq(ops, LAMBDA op : op[1] = "translate")
        ox == IF Len(tr) = 0 THEN Z(0)
              ELSE IF Len(tr) = 1 THEN tr[1][2] ELSE Add(tr[1][2], tr[2][2])
        oy == IF Len(tr) = 0 THEN Z(0)
              ELSE IF Len(tr) = 1 THEN tr[1][3] ELSE Add(tr[1][3], tr[2][3])
        segs == Segments(ops)
    IN  [j \in 1..(Len(segs) \div 2) |->
            <<Add(ox, segs[2 * j - 1][2]), Add(oy, segs[2 * j - 1][3]),
              Add(ox, segs[2 * j][2]), Add(oy, segs[2 * j][3])>>]

\* The lines of the grid of configuration c on a W x H target: n + 1 vertical and
\* n + 1 horizontal lines over the square of side total centred at
\* (W/2 + positionX, H/2 + positionY)
GridLines(c, W, H) ==
    LET n == MathMax(Z(1), c.gridN)[1]
        total == Mul(Z(n), c.cellSize)
        left == Sub(Add(Div(W, Z(2)), c.positionX), Div(total, Z(2)))
        top == Sub(Add(Div(H, Z(2)), c.positionY), Div(total, Z(2)))
    IN  [vertical |-> { <<Add(left, Mul(Z(i), c.cellSize)), top,
                          Add(left, Mul(Z(i), c.cellSize)), Add(top, total)>> : i \in 0..n },
         horizontal |-> { <<left, Add(top, Mul(Z(i), c.cellSize)),
                            Add(left, total), Add(top, Mul(Z(i), c.cellSize))>> : i \in 0..n }]

\* C11: with rotation 0, drawTo on a W x H target strokes exactly effectiveN + 1
\* vertical and effectiveN + 1 horizontal lines, cellSize apart, each of length
\* totalGridSize, over the square of side totalGridSize centred at (W/2 +
\* positionX, H/2 + positionY); for gridN 4, cellSize 60, position (0, 0) and a
\* 300 x 300 target the lines span from (30, 30) to (270, 270).
C11_DrawToStrokesTheCentredGrid ==
    (snapshot.ops # <<>> /\ snapshot.config.rotation = Z(0)) =>
       LET ops == snapshot.ops
           c == snapshot.config
           n == MathMax(Z(1), c.gridN)[1]
           segs == Segments(ops)
           lines == Lines(ops)
           grid == GridLines(c, snapshot.width, snapshot.height)
       IN  /\ \A k \in 1..Len(ops) : ops[k][1] = "rotate" => ops[k][2] = Z(0)
           /\ \E k \in 1..Len(ops) : ops[k][1] = "stroke"
           /\ Len(segs) = 4 * (n + 1)
           /\ \A k \in 1..Len(segs) :
                 segs[k][1] = IF k % 2 = 1 THEN "moveTo" ELSE "lineTo"
           /\ {lines[j] : j \in 1..(n + 1)} = grid.vertical
           /\ {lines[j] : j \in (n + 2)..(2 * n + 2)} = grid.horizontal
           /\ Cardinality(grid.vertical) = n + 1
           /\ Cardinality(grid.horizontal) = n + 1
           /\ (/\ c.gridN = Z(4) /\ c.cellSize = Z(60)
               /\ c.positionX = Z(0) /\ c.positionY = Z(0)
               /\ snapshot.width = Z(300) /\ snapshot.height = Z(300)) =>
                 /\ <<Z(30), Z(30), Z(30), Z(270)>> \in grid.vertical
                 /\ <<Z(270), Z(30), Z(270), Z(270)>> \in grid.vertical
                 /\ <<Z(30), Z(30), Z(270), Z(30)>> \in grid.horizontal
                 /\ <<Z(30), Z(270), Z(270), Z(270)>> \in grid.horizontal
                 /\ \A j \in 1..Len(lines) : \A i \in 1..4 :
                       Between(lines[j][i], Z(30), Z(270))

\* An unrotated grid of 3 x 3 cells of size 100, moved off the centre, was drawn
\* to a 200 x 100 target.
C11_Witness ==
    /\ last = "drawTo"
    /\ snapshot.config = config
    /\ config.rotation = Z(0)
    /\ config.gridN = Z(3)
    /\ config.cellSize = Z(100)
    /\ config.positionX = Z(7)
    /\ snapshot.width = Z(200)
    /\ snapshot.height = Z(100)
    /\ Len(Lines(snapshot.ops)) = 8

\* C12: drawTo is deterministic: an invocation with the target dimensions of the
\* previous one and the configuration unchanged since issues the identical
\* sequence of calls (stroke geometry included); and an invocation changes neither
\* the configuration nor the renderer's dirty flag and notifies no listener.
C12_DrawToIsDeterministicAndPure ==
    [][\A size \in Sizes :
          (last' = "drawTo" /\ DrawTo(size)) =>
            /\ config' = config
            /\ listeners' = listeners
            /\ renderer'.needsDraw = renderer.needsDraw
            /\ renderer' = renderer
            /\ calls' = <<>>
            /\ (/\ snapshot.ops # <<>>
                /\ snapshot.width = size[1]
                /\ snapshot.height = size[2]
                /\ snapshot.config = config) =>
                  /\ snapshot'.ops = snapshot.ops
                  /\ Segments(snapshot'.ops) = Segments(snapshot.ops)]_vars

\* drawTo was invoked again with the same target size and configuration, the
\* dirty flag set and the live canvas of another size than the target.
C12_Witness ==
    /\ last = "drawTo"
    /\ hist.repeat
    /\ renderer.needsDraw
    /\ snapshot.width # renderer.canvas.clientWidth
    /\ snapshot.config = config
    /\ config # InitConfig

\* C13: centerGrid() sets positionX and positionY to 0, invokes each registered
\* listener exactly once (not once per axis), and leaves gridN, cellSize,
\* rotation, lineColor, lineWidth and lineOpacity unchanged.
C13_CenterGridResetsPositionNotifyingOnce ==
    [][CenterGrid =>
          /\ config' = [config EXCEPT !.positionX = Z(0), !.positionY = Z(0)]
          /\ listeners' = listeners
          /\ calls' = [i \in 1..Len(listeners) |->
                          [fn |-> listeners[i], seen |-> config']]]_vars

\* A grid away from the centre on both axes was centred, with three listeners
\* registered and each called once.
C13_Witness ==
    /\ last = "centerGrid"
    /\ hist.centred[1] # Z(0)
    /\ hist.centred[2] # Z(0)
    /\ config.positionX = Z(0)
    /\ config.positionY = Z(0)
    /\ Len(listeners) = 3
    /\ Len(calls) = 3

\* The program state after the first j entries of props were assigned, one at a
\* time and in order, through the setters
RECURSIVE SetInOrder(_, _, _)
SetInOrder(w, props, j) ==
    IF j = 0 THEN w
    ELSE assign(SetInOrder(w, props, j - 1), props[j][1], props[j][2])

Calls(log, fn) == Cardinality({x \in 1..Len(log) : log[x].fn = fn})

\* C15: onChange(fn) registers fn and its unsubscribe function removes it: once
\* the unsubscribe function was called (and fn not registered again), no later
\* notification invokes fn, while every other registered listener is still
\* invoked exactly once per notification.
C15_UnsubscribedListenerIsNotCalled ==
    [][/\ OnChange("observer") => listeners' = Append(listeners, "observer")
       /\ Unsubscribe("observer") =>
             listeners' = SelectSeq(listeners, LAMBDA fn : fn # "observer")
       /\ \A fn \in hist'.removed : Calls(calls', fn) = 0
       /\ last' \in {"set", "centerGrid"} =>
             /\ calls' # <<>>
             /\ \A i \in 1..Len(listeners) :
                   listeners[i] \notin hist.removed => Calls(calls', listeners[i]) = 1]_vars

\* A listener was registered and unsubscribed; a later setter notified the two
\* other listeners and not it.
C15_Witness ==
    /\ last = "set"
    /\ hist.removed = {"observer"}
    /\ Len(calls) = 2
    /\ calls[1].fn = "render"
    /\ calls[2].fn = "syncUI"
    /\ config # InitConfig

\* C16: a wheel event with the ctrl modifier held sets cellSize to
\* clamp(cellSize - deltaY * 0.5, 10, 400), cellSize being the value the previous
\* event left, and notifies; a wheel event without the modifier leaves the
\* configuration unchanged and notifies no listener.
C16_CtrlWheelAdjustsCellSize ==
    [][\A e \in WheelEvents :
          Wheel(e) =>
            IF e.ctrlKey
            THEN /\ config' = [config EXCEPT !.cellSize =
                                  Clamp(Sub(config.cellSize, Mul(e.deltaY, Num(1, 2))),
                                        Z(10), Z(400))]
                 /\ Len(calls') = Len(listeners)
            ELSE /\ config' = config
                 /\ calls' = <<>>]_vars

\* Four ctrl+wheel events of deltaY 30 took the cell size from 60 down to the
\* clamp at 10 (60 - 4 * 15 is 0).
C16_Witness ==
    /\ last = "wheel"
    /\ calls # <<>>
    /\ config.cellSize = Z(10)

\* Field key of configuration c is inside its valid range
FieldInRange(key, c) ==
    CASE key = "gridN" -> c.gridN[2] = 1 /\ Between(c.gridN, Z(1), Z(128))
      [] key = "cellSize" -> Between(c.cellSize, Z(10), Z(400))
      [] key = "rotation" -> Between(c.rotation, Z(-180), Z(180))
      [] key = "lineWidth" -> Between(c.lineWidth, Num(1, 2), Z(5))
      [] key = "lineOpacity" -> Between(c.lineOpacity, Num(1, 10), Z(1))

\* C17: when a sidebar control delivers a text whose parse result is not a
\* number, or a caller assigns a value that is not a number, to gridN, cellSize,
\* rotation, lineWidth or lineOpacity, the handler completes and the field
\* afterwards holds a value inside its valid range.
C17_NonNumericInputEndsInRange ==
    [][/\ \A control \in Clamped : \A text \in Texts :
             (Input(control, text) /\ IsNaN(ParseFloat(text))) =>
                FieldInRange(control, config')
       /\ \A key \in Clamped :
             Assign(key, NaN) => FieldInRange(key, config')]_vars

\* What the code does instead: the parse result NaN passes through Math.min and
\* Math.max and is stored (only the gridN control replaces it, by 1).
C17_NonNumericInputIsStored ==
    [][/\ \A control \in Clamped \ {"gridN"} : \A text \in Texts :
             (Input(control, text) /\ IsNaN(ParseFloat(text))) =>
                (IsNaN(config'[control]) /\ Len(calls') = Len(listeners))
       /\ \A text \in Texts :
             (Input("gridN", text) /\ IsNaN(ParseInt(text))) => config'.gridN = Z(1)
       /\ \A key \in Clamped :
             Assign(key, NaN) => (IsNaN(config'[key]) /\ Len(calls') = Len(listeners))]_vars

\* The last event was a transition into exactly two active contacts: a
\* touch-start that reports two contacts, or a touch-end that leaves two of three
IntoTwoByAdding ==
    /\ last = "touchstart"
    /\ hist.trail # <<>>
    /\ hist.trail[Len(hist.trail)] = 2

IntoTwoByLifting ==
    /\ last = "touchend"
    /\ Len(hist.trail) >= 2
    /\ hist.trail[Len(hist.trail) - 1] = 3
    /\ hist.trail[Len(hist.trail)] = 2

\* The gesture holds anchors captured in the current state: two contact
\* identifiers and the current cellSize and rotation
FreshlyAnchored ==
    /\ Len(gestures.touchIds) = 2
    /\ gestures.initialCellSize = config.cellSize
    /\ gestures.initialRotation = config.rotation

\* C18: every transition into exactly two active contacts, by adding a contact or
\* by lifting one of three, starts a new gesture with freshly captured anchors
\* (from which the following two-contact moves are computed).
C18_EveryTransitionIntoTwoAnchors ==
    (IntoTwoByAdding \/ IntoTwoByLifting) => FreshlyAnchored

\* What the code does: a touch-start reporting two contacts captures the
\* anchors; a touch-end that leaves two of three contacts clears the identifiers
\* and captures nothing, and every touch-move after it is ignored until the next
\* touch-start with two contacts.
C18_LiftingToTwoLeavesNoGesture ==
    [][/\ IntoTwoByAdding => (FreshlyAnchored /\ Anchors = hist.anchor)
       /\ IntoTwoByLifting =>
             /\ gestures.touchIds = <<>>
             /\ \A t \in TouchLists :
                   TouchMove([touches |-> t]) => (config' = config /\ calls' = <<>>)]_vars

\* C19: pointer events of kind touch are ignored by the drag path: a touch-kind
\* pointer-down never starts a drag, a touch-kind pointer-move never changes
\* positionX or positionY, and a touch-kind pointer-up never ends a drag in
\* progress, in any state, a mouse drag being active included.
C19_TouchPointersAreIgnoredByDrag ==
    [][\A e \in PointerEvents :
          e.pointerType = "touch" =>
            /\ PointerDown(e) => (gestures' = gestures /\ config' = config)
            /\ PointerMove(e) =>
                  /\ config'.positionX = config.positionX
                  /\ config'.positionY = config.positionY
            /\ PointerUp(e) => gestures'.dragging = gestures.dragging]_vars

\* What the code does: only pointer-down reads the pointer kind.  A touch-kind
\* pointer-down changes nothing; while a drag is active a touch-kind pointer-move
\* moves the grid like any other and a touch-kind pointer-up ends the drag; with
\* no drag active both are ignored.
C19_OnlyPointerDownReadsThePointerKind ==
    [][\A e \in PointerEvents :
          e.pointerType = "touch" =>
            /\ PointerDown(e) => (gestures' = gestures /\ config' = config /\ calls' = <<>>)
            /\ PointerMove(e) =>
                  IF gestures.dragging
                  THEN /\ config'.positionX =
                             Add(gestures.configStartX, Sub(e.clientX, gestures.dragStartX))
                       /\ config'.positionY =
                             Add(gestures.configStartY, Sub(e.clientY, gestures.dragStartY))
                       /\ Len(calls') = 2 * Len(listeners)
                  ELSE config' = config /\ calls' = <<>>
            /\ PointerUp(e) => ~gestures'.dragging]_vars

\* C20: the render loop starts with the dirty flag set (the constructor's first
\* #loop call redraws); each frame callback performs exactly one redraw and clears
\* the flag if the flag is set, and performs no draw if it is clear; every
\* configuration mutation and every resize sets the flag and draws nothing, so
\* any number of them between two frame callbacks causes exactly one redraw, at
\* the next frame.
C20_FramesRedrawOnceWhenDirty ==
    /\ FieldInit.renderer.needsDraw
    /\ Constructed.calls = <<[fn |-> "#draw", seen |-> InitConfig]>>
    /\ [][/\ (last' = "frame" /\ Frame) =>
                /\ ~renderer'.needsDraw
                /\ IF renderer.needsDraw
                   THEN /\ Calls(calls', "#draw") = 1
                        /\ calls'[1].seen = config
                        /\ renderer'.ops = draw(World)
                   ELSE /\ Calls(calls', "#draw") = 0
                        /\ renderer'.ops = renderer.ops
          /\ last' \in {"set", "centerGrid", "resize"} =>
                /\ renderer'.needsDraw
                /\ Calls(calls', "#draw") = 0
                /\ renderer'.ops = renderer.ops
          /\ last' = "drawTo" => renderer' = renderer]_vars

\* Two configuration mutations and a resize followed the constructor's frame, and
\* the next frame callback redrew once, with the configuration they left.
C20_Witness ==
    /\ last = "frame"
    /\ steps = 4
    /\ Calls(calls, "#draw") = 1
    /\ ~renderer.needsDraw
    /\ config.gridN # Z(4)
    /\ config.positionX # Z(0)
    /\ renderer.canvas.clientWidth # InitSize[1]
    /\ hist.live.config = config
    /\ renderer.ops = draw(World)

\* The last handler notified the listeners or was a detected resize
Dirtied == last \in {"set", "centerGrid", "resize"}

\* The last handler was a frame callback that redrew the live surface once, with
\* the configuration and size current at that frame
Redrawn ==
    /\ last = "frame"
    /\ Calls(calls, "#draw") = 1
    /\ ~renderer.needsDraw
    /\ renderer.ops = draw(World)

\* C21: under fair delivery of frame callbacks (and with no destroy()), every
\* configuration notification and every detected resize of the live surface is
\* eventually followed by a redraw of the live surface, and that redraw uses the
\* configuration current at the time of the frame.
C21_EveryChangeIsEventuallyRedrawn ==
    (Dirtied \/ renderer.needsDraw) ~> Redrawn

\* A frame redrew a grid that setters and a resize had changed since
\* construction.
C21_Witness ==
    /\ Redrawn
    /\ steps = 3
    /\ config.gridN # Z(4)
    /\ config.rotation # Z(0)
    /\ renderer.canvas.clientWidth # InitSize[1]

\* The configuration and the display size of the live surface are those of its
\* previous redraw
SameAsLastRedraw ==
    /\ hist.live.config = config
    /\ hist.live.width = renderer.canvas.clientWidth
    /\ hist.live.height = renderer.canvas.clientHeight

\* C22: a frame callback redraws the live surface only when the configuration or
\* the surface's display size changed since the previous redraw: events that
\* leave every configuration field equal to its previous value cause no redraw.
C22_RedrawsOnlyAfterAChange ==
    [][(last' = "frame" /\ SameAsLastRedraw /\ Frame) =>
          Calls(calls', "#draw") = 0]_vars

\* What the code does: every setter and centerGrid notifies, and so sets the
\* dirty flag, whether or not the value stored differs from the previous one; the
\* next frame then redraws the same picture.
C22_UnchangedValueStillRedraws ==
    [][/\ (last' \in {"set", "centerGrid"}) => renderer'.needsDraw
       /\ (last' = "frame" /\ SameAsLastRedraw /\ renderer.needsDraw /\ Frame) =>
             /\ Calls(calls', "#draw") = 1
             /\ Segments(renderer'.ops) = Segments(renderer.ops)
             /\ Transforms(renderer'.ops) = Transforms(renderer.ops)]_vars

\* C23: if a listener unsubscribes itself while it is being notified, the
\* notification completes and every listener that was registered when it began,
\* the ones after the unsubscribing listener included, is invoked exactly once
\* for that notification; the unsubscribing listener is registered no more.
C23_SelfUnsubscribeDuringNotification ==
    [][(last' \in {"set", "centerGrid"}) =>
          /\ calls' = [i \in 1..Len(listeners) |->
                          [fn |-> listeners[i], seen |-> config']]
          /\ \A i \in 1..Len(listeners) : Calls(calls', listeners[i]) = 1
          /\ listeners' = SelectSeq(listeners, LAMBDA x : x # "once")]_vars

\* A setter notified four listeners, the third of which unsubscribed itself
\* during the notification; the fourth was still called.
C23_Witness ==
    /\ last = "set"
    /\ Len(calls) = 4
    /\ calls[3].fn = "once"
    /\ calls[4].fn = "observer"
    /\ listeners = <<"render", "syncUI", "observer">>

\* C24: a pointer-up with no drag in progress changes nothing; a pointer-down
\* changes no configuration field and notifies no listener; and from the
\* pointer-up that ends a drag until the next non-touch pointer-down, every
\* pointer-move leaves the configuration unchanged and notifies no listener.
C24_PointerEventsOutsideADrag ==
    [][\A e \in PointerEvents :
          /\ (last' = "pointerup" /\ ~hist.drag.active /\ PointerUp(e)) =>
                /\ config' = config
                /\ gestures' = gestures
                /\ listeners' = listeners
                /\ renderer' = renderer
                /\ calls' = <<>>
          /\ (last' = "pointerdown" /\ PointerDown(e)) =>
                (config' = config /\ calls' = <<>>)
          /\ (last' = "pointermove" /\ ~hist.drag.active /\ PointerMove(e)) =>
                (config' = config /\ calls' = <<>>)]_vars

\* A drag moved the grid and was ended by a pointer-up; a later pointer-move
\* left the position where the drag had put it.
C24_Witness ==
    /\ last = "pointermove"
    /\ ~hist.drag.active
    /\ hist.drag.moves > 0
    /\ ~gestures.dragging
    /\ calls = <<>>
    /\ config.positionX = Add(hist.drag.px, Z(5))
    /\ config.positionX # hist.drag.px

\* C25: a touch-end clears the gesture's anchors: from any touch-end until a
\* later touch-start that reports exactly two contacts, no touch-move changes
\* cellSize or rotation (or any other field), and none notifies a listener.
C25_TouchEndClearsTheAnchors ==
    [][/\ last' = "touchend" => gestures'.touchIds = <<>>
       /\ \A t \in TouchLists :
             (last' = "touchmove" /\ ~hist.anchored /\ TouchMove([touches |-> t])) =>
                /\ config'.cellSize = config.cellSize
                /\ config'.rotation = config.rotation
                /\ config' = config
                /\ calls' = <<>>]_vars

\* A gesture was anchored with a positive distance and ended by a touch-end; a
\* later touch-move of two contacts changed nothing.
C25_Witness ==
    /\ last = "touchmove"
    /\ ~hist.anchored
    /\ hist.anchor # NoAnchor
    /\ Lt(Z(0), gestures.initialPinchDist)
    /\ hist.move = "none"
    /\ calls = <<>>
    /\ config = InitConfig

\* The drawing state of a 2D context: the transform (as the transformations
\* applied so far), the stroke style, the line width, the global alpha, and the
\* stack of saved states.
Saved(ctx) ==
    [transform |-> ctx.transform, strokeStyle |-> ctx.strokeStyle,
     lineWidth |-> ctx.lineWidth, globalAlpha |-> ctx.globalAlpha]

\* The effect of one call on the drawing state: save pushes it, restore pops it
\* (and does nothing on an empty stack); a transformation with an argument that
\* is not finite, a line width that is not positive and an alpha outside [0, 1]
\* are ignored; path and stroke calls leave the drawing state alone.
ContextCall(ctx, op) ==
    CASE op[1] = "save" -> [ctx EXCEPT !.stack = Append(@, Saved(ctx))]
      [] op[1] = "restore" ->
            IF ctx.stack = <<>> THEN ctx
            ELSE LET top == ctx.stack[Len(ctx.stack)]
                 IN  [transform |-> top.transform, strokeStyle |-> top.strokeStyle,
                      lineWidth |-> top.lineWidth, globalAlpha |-> top.globalAlpha,
                      stack |-> SubSeq(ctx.stack, 1, Len(ctx.stack) - 1)]
      [] op[1] \in {"translate", "rotate"} ->
            IF \E k \in 2..Len(op) : IsNaN(op[k]) THEN ctx
            ELSE [ctx EXCEPT !.transform = Append(@, op)]
      [] op[1] = "strokeStyle" -> [ctx EXCEPT !.strokeStyle = op[2]]
      [] op[1] = "lineWidth" ->
            IF IsNaN(op[2]) \/ Le(op[2], Z(0)) THEN ctx
            ELSE [ctx EXCEPT !.lineWidth = op[2]]
      [] op[1] = "globalAlpha" ->
            IF IsNaN(op[2]) \/ Lt(op[2], Z(0)) \/ Lt(Z(1), op[2]) THEN ctx
            ELSE [ctx EXCEPT !.globalAlpha = op[2]]
      [] OTHER -> ctx

RECURSIVE ContextFrom(_, _, _)
ContextFrom(ctx, ops, i) ==
    IF i > Len(ops) THEN ctx
    ELSE ContextFrom(ContextCall(ctx, ops[i]), ops, i + 1)

\* The drawing state after the calls ops on the context ctx; only the calls
\* that ContextCall does not ignore are run
ContextAfter(ctx, ops) ==
    ContextFrom(ctx, SelectSeq(ops, LAMBDA op : op[1] \in
                    {"save", "restore", "translate", "rotate",
                     "strokeStyle", "lineWidth", "globalAlpha"}), 1)

\* Contexts drawTo may be handed: a fresh one, and one whose caller has scaled
\* it, styled it and saved a state
FoundContexts ==
    LET fresh == [transform |-> <<>>, strokeStyle |-> "#000000",
                  lineWidth |-> Z(1), globalAlpha |-> Z(1), stack |-> <<>>]
        used == [transform |-> << <<"scale", Z(2), Z(2)>> >>, strokeStyle |-> "#ffffff",
                 lineWidth |-> Z(3), globalAlpha |-> Num(1, 2), stack |-> <<>>]
    IN  {fresh, used, [used EXCEPT !.stack = <<Saved(fresh)>>]}

\* C26: drawTo leaves the target context's drawing state as it found it: save
\* and restore are balanced, and the transform, stroke style, line width and
\* global alpha after the call equal those before it, for every configuration
\* and every target size, zero width or height included.
C26_DrawToLeavesTheContextAsFound ==
    snapshot.ops # <<>> =>
        /\ Len(SelectSeq(snapshot.ops, LAMBDA op : op[1] = "save")) =
              Len(SelectSeq(snapshot.ops, LAMBDA op : op[1] = "restore"))
        /\ \A found \in FoundContexts :
              ContextAfter(found, snapshot.ops) = found

\* drawTo drew onto a target of zero width and height, with a rotation, a line
\* width and an opacity other than the found context's: inside the call the
\* context's state differed from the one found.
C26_Witness ==
    /\ last = "drawTo"
    /\ snapshot.width = Z(0)
    /\ snapshot.height = Z(0)
    /\ config.lineWidth = Z(2)
    /\ config.rotation = Z(170)
    /\ \A found \in FoundContexts :
          LET inside == ContextAfter(found, SubSeq(snapshot.ops, 1, Len(snapshot.ops) - 1))
          IN  /\ inside.transform # found.transform
              /\ inside.lineWidth = Z(2)
              /\ inside.stack # found.stack

\* C27: destroy() cancels the frame handle scheduled most recently, which is
\* the only one pending, and disconnects the observer; after it no frame
\* callback runs and the live surface is never redrawn, whatever mutations and
\* resizes follow.
C27_NoFrameAfterDestroy ==
    [][/\ (last' = "destroy" /\ ~hist.destroyed) =>
             /\ renderer.scheduled = {renderer.rafId}
             /\ renderer'.scheduled = {}
             /\ ~renderer'.observing
       /\ hist.destroyed =>
             /\ last' # "frame"
             /\ last' # "resize"
             /\ renderer.scheduled = {}
             /\ Calls(calls', "#draw") = 0
             /\ renderer'.ops = renderer.ops]_vars

\* After some frames the renderer was destroyed; a later mutation set the dirty
\* flag, but no frame is pending and the live surface still shows the
\* configuration of the last redraw before destroy().
C27_Witness ==
    /\ hist.destroyed
    /\ last = "set"
    /\ renderer.rafId = 3
    /\ renderer.needsDraw
    /\ renderer.scheduled = {}
    /\ config # hist.live.config
    /\ hist.live.config # InitConfig

\* C28: the anchor of a drag is not refreshed by other writers of the position:
\* centerGrid() or an assignment of positionX or positionY during an active
\* drag leaves the anchor captured at pointer-down as it was, and the next
\* pointer-move sets the position to that anchor plus the pointer delta,
\* overwriting the intervening change.
C28_DragOverwritesInterveningChanges ==
    [][/\ (last' \in {"centerGrid", "set"} /\ hist.drag.active) =>
             /\ gestures'.configStartX = hist.drag.px
             /\ gestures'.configStartY = hist.drag.py
             /\ gestures' = gestures
       /\ \A e \in PointerEvents :
             (/\ last' = "pointermove"
              /\ hist.drag.active
              /\ hist.drag.intervened
              /\ PointerMove(e)) =>
                /\ config'.positionX = Add(hist.drag.px, Sub(e.clientX, hist.drag.cx))
                /\ config'.positionY = Add(hist.drag.py, Sub(e.clientY, hist.drag.cy))]_vars

\* A drag started away from the centre; centerGrid() moved the grid to the
\* centre during the drag; the next pointer-move put the grid at the anchor
\* plus the pointer delta, away from the centre.
C28_Witness ==
    /\ last = "pointermove"
    /\ hist.drag.active
    /\ hist.drag.overwrote
    /\ hist.drag.px = Z(7)
    /\ hist.centred[1] = Z(7)
    /\ config.positionX = Add(hist.drag.px, Z(5))
    /\ config.positionY = Add(hist.drag.py, Z(3))

\* C29: update(props) ignores every key that is not one of the eight fields,
\* the names of derived getters and of methods included: an update whose keys
\* all name no field leaves the configuration's state and behaviour unchanged,
\* invokes no listener and raises no error.
C29_UpdateIgnoresForeignKeys ==
    [][\A props \in ForeignInputs :
          (/\ last' = "update"
           /\ own = {}
           /\ \A i \in 1..Len(props) : props[i][1] \notin Fields
           /\ Update(props)) =>
             /\ config' = config
             /\ listeners' = listeners
             /\ own' = own
             /\ calls' = <<>>
             /\ thrown' = "none"]_vars

\* What update does with a key that names no field: a name the object does not
\* have is skipped; a getter-only accessor raises a TypeError that ends the
\* update before the keys after it; a method is replaced by the value on the
\* object, so that calling it later raises a TypeError. No listener is invoked
\* for any of them.
C29_UpdateAssignsEveryNameOfTheObject ==
    [][/\ \A props \in ForeignInputs :
             (last' = "update" /\ own = {} /\ Update(props)) =>
                LET foreign == {i \in 1..Len(props) : props[i][1] \notin Fields}
                    getters == {i \in 1..Len(props) : props[i][1] \in Getters}
                    reached == {i \in 1..Len(props) : \A j \in getters : i < j}
                IN  /\ thrown' = IF getters = {} THEN "none" ELSE "TypeError"
                    /\ own' = {<<props[i][1], props[i][2]>> :
                                 i \in {j \in reached : props[j][1] \in Methods}}
                    /\ Len(calls') = Len(listeners) *
                          Cardinality({i \in reached : props[i][1] \in Fields})
                    /\ (foreign = 1..Len(props)) => config' = config
       /\ (last' = "centerGrid" /\ \E p \in own : p[1] = "centerGrid") =>
             (thrown' = "TypeError" /\ config' = config /\ calls' = <<>>)]_vars

\* C30: in a gesture anchored with both contacts at the same point (initial
\* distance 0), a touch-move of the two anchored contacts leaves cellSize
\* unchanged and notifies for no cellSize assignment: the listeners are called
\* once each, for the rotation, which is still set to the anchored rotation plus
\* the angle delta in degrees, clamped to [-180, 180].
C30_ZeroDistanceGestureOnlyRotates ==
    [][\A t \in TouchLists :
          (/\ last' = "touchmove"
           /\ MoveKind(t) = "both"
           /\ hist.anchor.dist = Z(0)
           /\ TouchMove([touches |-> t])) =>
             /\ config'.cellSize = config.cellSize
             /\ config'.rotation = TurnedRotation(t)
             /\ Le(Z(-180), config'.rotation) /\ Le(config'.rotation, Z(180))
             /\ calls' = [i \in 1..Len(listeners) |->
                             [fn |-> listeners[i], seen |-> config']]]_vars

\* A gesture anchored at rotation 170 with both contacts at one point was moved
\* with the contacts apart, a quarter turn on: the rotation reads 180 and the
\* cell size is the anchored one.
C30_Witness ==
    /\ last = "touchmove"
    /\ hist.anchored
    /\ hist.move = "both"
    /\ hist.anchor.dist = Z(0)
    /\ gestures.initialPinchDist = Z(0)
    /\ hist.anchor.rot = Z(170)
    /\ config.rotation = Z(180)
    /\ config.cellSize = hist.anchor.cell
    /\ Len(calls) = Len(listeners)

\* The list rows without its k-th entry
Without(rows, k) == SubSeq(rows, 1, k - 1) \o SubSeq(rows, k + 1, Len(rows))

\* C31: in the formation editor, after any sequence of add-row, remove-row and
\* row-count edits, formationRows is non-empty and every entry is an integer in
\* [1, 20]; removing the only row leaves the single row 1; and the edit and
\* remove controls of the k-th row shown act on the k-th entry of the list: an
\* edit replaces that entry alone, a removal takes out that entry alone.
C31_FormationRowsStayValid ==
    /\ [](/\ formationRows # <<>>
          /\ \A k \in 1..Len(formationRows) :
                /\ Len(formationRows[k]) = 2
                /\ formationRows[k][2] = 1
                /\ formationRows[k][1] \in 1..20
          /\ Len(formationRowsEl) = Len(formationRows)
          /\ \A k \in 1..Len(formationRowsEl) : formationRowsEl[k].i = k - 1)
    /\ [][/\ \A k \in 1..Len(formationRowsEl) :
                (last' = "removeRow" /\ RemoveRow(k)) =>
                    formationRows' = IF Len(formationRows) = 1 THEN <<Z(1)>>
                                     ELSE Without(formationRows, k)
          /\ \A k \in 1..Len(formationRowsEl) : \A text \in Texts :
                (last' = "editRow" /\ EditRow(k, text)) =>
                    /\ Len(formationRows') = Len(formationRows)
                    /\ \A j \in 1..Len(formationRows) :
                          j # k => formationRows'[j] = formationRows[j]
                    /\ formationRows'[k] = rowCount(text)
          /\ last' = "addRow" => formationRows' = Append(formationRows, Z(1))]_vars

\* The only row, edited to the largest count, was removed: the list holds the
\* single row 1 again, shown as one row.
C31_Witness ==
    /\ last = "removeRow"
    /\ hist.rowsBefore = <<Z(20)>>
    /\ formationRows = <<Z(1)>>
    /\ formationRowsEl = <<[i |-> 0]>>

====
